---- MODULE Spec2Model ----
(***************************************************************************)
(* Model of the Bitrix24 business-process webhook relay (src/server.js)    *)
(* and of its earlier draft (src/unnamed/part_000).                        *)
(*                                                                         *)
(* A JavaScript value is a record [t, n, s]: t is the type tag, n the      *)
(* number (or 0/1 of a boolean), s the string as a sequence of atoms.      *)
(* Identifiers and URLs are spelled one character per atom; log and error  *)
(* messages are spelled one word per atom.                                 *)
(***************************************************************************)
EXTENDS Integers, Sequences, FiniteSets, TLC

\* ---------------------------------------------------------------- values

Undef == [t |-> "undef", n |-> 0, s |-> <<>>]

Null == [t |-> "null", n |-> 0, s |-> <<>>]

Num(k) == [t |-> "num", n |-> k, s |-> <<>>]

Str(a) == [t |-> "str", n |-> 0, s |-> a]

Bool(b) == [t |-> "bool", n |-> IF b THEN 1 ELSE 0, s |-> <<>>]

\* A plain object {} : truthy, Number() is NaN, String() is "[object Object]".
Obj == [t |-> "obj", n |-> 0, s |-> <<>>]

\* An object with neither a callable toString nor a primitive valueOf, such
\* as the JSON value {"toString": null}: String() raises a TypeError.
BadObj == [t |-> "badobj", n |-> 0, s |-> <<>>]

\* An array, kept by the comma-joined text of its elements (its toString).
Arr(a) == [t |-> "arr", n |-> 0, s |-> a]

\* JavaScript truthiness, as the code's `!x`, `x && ...` and `x || ...` use it.
Truthy(v) ==
  CASE v.t = "undef" -> FALSE
    [] v.t = "null" -> FALSE
    [] v.t = "num" -> v.n /= 0
    [] v.t = "bool" -> v.n = 1
    [] v.t = "str" -> v.s /= <<>>
    [] OTHER -> TRUE

\* a || b
OrElse(a, b) == IF Truthy(a) THEN a ELSE b

IsDigit(c) == c \in {"0", "1", "2", "3", "4", "5", "6", "7", "8", "9"}

DigitVal(c) ==
  CASE c = "0" -> 0 [] c = "1" -> 1 [] c = "2" -> 2 [] c = "3" -> 3
    [] c = "4" -> 4 [] c = "5" -> 5 [] c = "6" -> 6 [] c = "7" -> 7
    [] c = "8" -> 8 [] c = "9" -> 9

DigitChar(d) ==
  CASE d = 0 -> "0" [] d = 1 -> "1" [] d = 2 -> "2" [] d = 3 -> "3"
    [] d = 4 -> "4" [] d = 5 -> "5" [] d = 6 -> "6" [] d = 7 -> "7"
    [] d = 8 -> "8" [] d = 9 -> "9"

\* /^\d+$/.test(a)
AllDigits(a) == Len(a) > 0 /\ \A i \in 1..Len(a) : IsDigit(a[i])

RECURSIVE DigitsToNat(_)
DigitsToNat(a) ==
  IF a = <<>> THEN 0
  ELSE 10 * DigitsToNat(SubSeq(a, 1, Len(a) - 1)) + DigitVal(a[Len(a)])

RECURSIVE NatToDigits(_)
NatToDigits(k) ==
  IF k < 10 THEN <<DigitChar(k)>>
  ELSE Append(NatToDigits(k \div 10), DigitChar(k % 10))

\* Number(v): [nan, n]. Strings are decimal integers with an optional sign;
\* every other non-empty text is NaN.
ToNumber(v) ==
  CASE v.t = "undef" -> [nan |-> TRUE, n |-> 0]
    [] v.t = "null" -> [nan |-> FALSE, n |-> 0]
    [] v.t = "num" -> [nan |-> FALSE, n |-> v.n]
    [] v.t = "bool" -> [nan |-> FALSE, n |-> v.n]
    [] v.t \in {"str", "arr"} ->
         IF v.s = <<>> THEN [nan |-> FALSE, n |-> 0]
         ELSE IF AllDigits(v.s) THEN [nan |-> FALSE, n |-> DigitsToNat(v.s)]
         ELSE IF v.s[1] = "-" /\ AllDigits(Tail(v.s))
           THEN [nan |-> FALSE, n |-> 0 - DigitsToNat(Tail(v.s))]
         ELSE [nan |-> TRUE, n |-> 0]
    [] OTHER -> [nan |-> TRUE, n |-> 0]

\* String(v) raises instead of returning.
StringThrows(v) == v.t = "badobj"

\* String(v), for a v it does not raise on.
ToStr(v) ==
  CASE v.t = "undef" -> <<"undefined">>
    [] v.t = "null" -> <<"null">>
    [] v.t = "num" ->
         IF v.n < 0 THEN <<"-">> \o NatToDigits(0 - v.n) ELSE NatToDigits(v.n)
    [] v.t = "bool" -> IF v.n = 1 THEN <<"true">> ELSE <<"false">>
    [] v.t \in {"str", "arr"} -> v.s
    [] OTHER -> <<"[object Object]">>

\* hay.includes(needle) / hay.startsWith(needle)
StartsWith(hay, needle) ==
  Len(hay) >= Len(needle) /\ SubSeq(hay, 1, Len(needle)) = needle

Includes(hay, needle) ==
  \E i \in 1..(Len(hay) + 1) :
    /\ i + Len(needle) - 1 <= Len(hay)
    /\ SubSeq(hay, i, i + Len(needle) - 1) = needle

\* ------------------------------------------------------ extractDealId

DealPrefix == <<"D", "E", "A", "L", "_">>

\* a has a match of /DEAL_(\d+)/ starting at position i
DealAt(a, i) ==
  /\ i + 5 <= Len(a)
  /\ SubSeq(a, i, i + 4) = DealPrefix
  /\ IsDigit(a[i + 5])

\* The first capture group of a.match(/DEAL_(\d+)/): the longest run of
\* digits after the leftmost "DEAL_" that a digit follows.
DealCapture(a) ==
  LET i == CHOOSE k \in 1..Len(a) : DealAt(a, k) /\ \A j \in 1..(k - 1) : ~DealAt(a, j)
      e == CHOOSE k \in (i + 5)..Len(a) :
             /\ \A j \in (i + 5)..k : IsDigit(a[j])
             /\ (k = Len(a) \/ ~IsDigit(a[k + 1]))
  IN SubSeq(a, i + 5, e)

\* extractDealId looking at body.document_id before the query parameter.
extractDealIdBodyFirst(query, body) ==
  LET q == query.deal_id
      doc == body.document_id
  IN IF doc.isArray /\ doc.e2.t = "str" /\ (\E i \in 1..Len(doc.e2.s) : DealAt(doc.e2.s, i))
       THEN Str(DealCapture(doc.e2.s))
     ELSE IF Truthy(q) /\ ~StringThrows(q) /\ AllDigits(ToStr(q)) THEN Str(ToStr(q))
     ELSE Null

\* extractDealId without the Array.isArray test on body.document_id.
extractDealIdAnyDoc(query, body) ==
  LET q == query.deal_id
      doc == body.document_id
  IN IF Truthy(q) /\ ~StringThrows(q) /\ AllDigits(ToStr(q)) THEN Str(ToStr(q))
     ELSE IF doc.e2.t = "str" /\ (\E i \in 1..Len(doc.e2.s) : DealAt(doc.e2.s, i))
       THEN Str(DealCapture(doc.e2.s))
     ELSE Null

\* query is [deal_id]; body is [document_id, member_id], document_id being
\* [isArray, e2] (e2 is doc[2]) and member_id being body?.auth?.member_id.
extractDealId(query, body) ==
  LET q == query.deal_id
      doc == body.document_id
  IN IF Truthy(q) /\ ~StringThrows(q) /\ AllDigits(ToStr(q)) THEN Str(ToStr(q))
     ELSE IF doc.isArray /\ doc.e2.t = "str" /\ (\E i \in 1..Len(doc.e2.s) : DealAt(doc.e2.s, i))
       THEN Str(DealCapture(doc.e2.s))
     ELSE Null

\* The draft's copy of the same function.
extractDealIdDraft(query, body) ==
  LET q == query.deal_id
      doc == body.document_id
  IN IF Truthy(q) /\ ~StringThrows(q) /\ AllDigits(ToStr(q)) THEN Str(ToStr(q))
     ELSE IF doc.isArray /\ doc.e2.t = "str" /\ (\E i \in 1..Len(doc.e2.s) : DealAt(doc.e2.s, i))
       THEN Str(DealCapture(doc.e2.s))
     ELSE Null

\* ------------------------------------------------------------- logging

NoErr == [name |-> "", message |-> <<>>]

Err(name, message) == [name |-> name, message |-> message]

\* One console entry: log() writes status and message (chatId is the meta
\* field of that name, Null when the entry has none); detail is the error
\* whose message and stack the entry prints, NoErr when it prints none.
Entry(status, msg, chatId) ==
  [status |-> status, msg |-> msg, chatId |-> chatId, detail |-> NoErr]

log(logs, status, msg) == Append(logs, Entry(status, msg, Null))

\* logDebug(label, data) writes only when LOG_LEVEL is "debug"; e is the
\* error in data (NoErr when data holds none).
logDebug(logs, level, label, e) ==
  IF level /= "debug" THEN logs
  ELSE Append(logs, [Entry("DEBUG", label, Null) EXCEPT !.detail = e])

\* ---------------------------------------------------------------- errors

Pending == [kind |-> "pending", val |-> Undef, err |-> NoErr]

Return(v) == [kind |-> "return", val |-> v, err |-> NoErr]

Throw(e) == [kind |-> "throw", val |-> Undef, err |-> e]

\* The AbortError that fetch and the body reader reject with after ac.abort().
AbortError == Err("AbortError", <<"This", "operation", "was", "aborted">>)

\* What fetch rejects with when the network fails or the URL cannot be used.
FetchFailed == Err("TypeError", <<"fetch", "failed">>)

\* String(x) / Number(x) of an object that has no primitive value.
ConvertError == Err("TypeError", <<"Cannot", "convert", "object", "to", "primitive", "value">>)

\* pool.query rejecting.
DbError == Err("Error", <<"connection", "terminated">>)

\* -------------------------------------------------------------------- bx

MethodGetLastId == "imopenlines.crm.chat.getLastId"

MethodFinish == "imopenlines.operator.another.finish"

Http == <<"h", "t", "t", "p">>

\* base.replace(/\/?$/, "/"): one "/" at the end.
EnsureSlash(a) == IF a /= <<>> /\ a[Len(a)] = "/" THEN a ELSE Append(a, "/")

\* fetch can use the URL: http:// or https:// and a host.
IsAbsHttpUrl(a) ==
  \/ StartsWith(a, <<"h", "t", "t", "p", ":", "/", "/">>) /\ Len(a) > 7 /\ a[8] /= "/"
  \/ StartsWith(a, <<"h", "t", "t", "p", "s", ":", "/", "/">>) /\ Len(a) > 8 /\ a[9] /= "/"

InvalidUrlError == Err("Error", <<"bitrix_webhook_url", "pustoy", "ili", "nekorrektnyy">>)

\* The parsed response body: json.error, json.error_description, json.result
\* (Undef where the body has no such field); isNull marks the body `null`,
\* which has no fields to read.
Json(error, description, result) ==
  [error |-> error, error_description |-> description, result |-> result, isNull |-> FALSE]

\* res.json().catch(() => ({})): what a body that does not parse, or whose
\* read is aborted, leaves.
EmptyJson == Json(Undef, Undef, Undef)

\* The body `null`: valid JSON, so res.json() resolves with null.
JsonNull == [EmptyJson EXCEPT !.isNull = TRUE]

\* Reading a property of null.
NullReadError == Err("TypeError", <<"Cannot", "read", "properties", "of", "null">>)

\* One invocation of bx: the call it makes and where it is.
\*   phase   "fetch" (awaiting fetch), "body" (awaiting res.json()), "settled"
\*   timer   "none" (never armed), "armed", "fired" (ac.abort() ran), "cleared"
\*   net     the request went out on the network
\*   json    what res.json() resolved to (EmptyJson before that)
\*   ending  what settled the call: "sync" (bx raised before its first
\*           await), "network" (fetch rejected), "timeout" (the timer fired),
\*           "parsed" (res.json() resolved), "unparsable" (it rejected)
Call(method, url, arg, phase, timer, net, out) ==
  [method |-> method, url |-> url, arg |-> arg, phase |-> phase, timer |-> timer,
   net |-> net, resOk |-> FALSE, statusText |-> <<>>, json |-> EmptyJson,
   ending |-> IF phase = "settled" THEN "sync" ELSE "", out |-> out]

\* bx up to its first await: the URL check, the timer, the fetch.
bxStart(company, method, arg) ==
  LET base == EnsureSlash(ToStr(OrElse(company.url, Str(<<>>))))
      url == Append(base, method)
  IN IF base = <<>> \/ ~StartsWith(base, Http)
       THEN Call(method, <<>>, arg, "settled", "none", FALSE, Throw(InvalidUrlError))
     ELSE IF ~IsAbsHttpUrl(url)
       THEN Call(method, url, arg, "settled", "cleared", FALSE, Throw(FetchFailed))
     ELSE Call(method, url, arg, "fetch", "armed", TRUE, Pending)

\* bx from the parsed body on: the check of res.ok and json.error.
bxResult(method, resOk, statusText, json) ==
  IF json.isNull THEN Throw(NullReadError)
  ELSE IF ~resOk \/ Truthy(json.error)
    THEN LET m == OrElse(json.error_description,
                    OrElse(json.error, OrElse(Str(statusText), Str(<<"Unknown", "error">>))))
         IN Throw(Err("Error", <<method, "->">> \o ToStr(m)))
  ELSE Return(json.result)

\* The timer fires while the call is in flight: ac.abort(). An aborted fetch
\* rejects and bx rejects with it; an aborted body read rejects too, and the
\* .catch on res.json() turns that into {}.
bxOnAbort(c) ==
  IF c.phase = "fetch" THEN Throw(AbortError)
  ELSE bxResult(c.method, c.resOk, c.statusText, EmptyJson)

\* ------------------------------------------------------ the request task

\* What finishOpenlinesChatIfAny has come to: nothing yet, a returned
\* {found, finished, chatId, reason}, or a raised error.
WfNone == [state |-> "none", found |-> FALSE, finished |-> FALSE, chatId |-> Null,
           reason |-> "", err |-> NoErr]

WfReturn(found, chatId, reason) ==
  [state |-> "returned", found |-> found, finished |-> found, chatId |-> chatId,
   reason |-> reason, err |-> NoErr]

WfThrow(e) == [WfNone EXCEPT !.state = "threw", !.err = e]

NoCompany == [found |-> FALSE, enabled |-> FALSE, url |-> Null]

NoChatReason == "Aktivnyy chat ne nayden"

BadDealReason == "Nekorrektnyy ID sdelki"

Needle == <<"Could", "not", "find", "CRM", "entity">>

\* The last call bx made for the request, with a field replaced.
LastCall(s) == s.calls[Len(s.calls)]

SetLast(s, c) == [s EXCEPT !.calls[Len(s.calls)] = c]

\* The catch at the top of the task (lines 356-364).
handlerCatch(s, level, e) ==
  [s EXCEPT !.pc = "done",
            !.caught = e,
            !.logs = logDebug(log(s.logs, "ERROR", "processingError"), level, "errorDetails", e)]

\* Lines 340-355: what the handler logs once the workflow has returned.
handlerReport(s) ==
  IF ~s.wf.found
    THEN [s EXCEPT !.pc = "done", !.logs = log(s.logs, "OK", "noChat")]
  ELSE [s EXCEPT !.pc = "done",
                 !.logs = Append(s.logs, Entry("OK", "chatClosed", s.wf.chatId))]

\* afterClose reporting a closed chat whatever the close call came to.
afterCloseSwallow(s, level) == handlerReport([s EXCEPT !.wf = WfReturn(TRUE, s.chatId, "")])

\* finishOpenlinesChatIfAny after its close call settled (lines 228-229).
afterClose(s, level) ==
  LET out == LastCall(s).out
  IN IF out.kind = "throw"
       THEN handlerCatch([s EXCEPT !.wf = WfThrow(out.err)], level, out.err)
     ELSE handlerReport([s EXCEPT !.wf = WfReturn(TRUE, s.chatId, "")])

\* chatIdOf taking every failure of the call for "no chat".
chatIdOfSwallowAll(out) ==
  IF out.kind = "throw" \/ ~Truthy(out.val) \/ StringThrows(out.val)
    THEN [raised |-> FALSE, chatId |-> Null, err |-> NoErr]
  ELSE IF ~ToNumber(out.val).nan /\ ToNumber(out.val).n <= 0
    THEN [raised |-> FALSE, chatId |-> Null, err |-> NoErr]
  ELSE [raised |-> FALSE, chatId |-> Str(ToStr(out.val)), err |-> NoErr]

\* getLastOpenlinesChatIdForDeal after bx settled (lines 198-213): the chat
\* id it returns, Null for "no chat"; raised: the error it lets through.
chatIdOf(out) ==
  IF out.kind = "throw"
    THEN IF Includes(out.err.message, Needle)
           THEN [raised |-> FALSE, chatId |-> Null, err |-> NoErr]
         ELSE [raised |-> TRUE, chatId |-> Null, err |-> out.err]
  ELSE IF ~Truthy(out.val)
    THEN [raised |-> FALSE, chatId |-> Null, err |-> NoErr]
  ELSE IF StringThrows(out.val)
    THEN [raised |-> TRUE, chatId |-> Null, err |-> ConvertError]
  ELSE IF ~ToNumber(out.val).nan /\ ToNumber(out.val).n <= 0
    THEN [raised |-> FALSE, chatId |-> Null, err |-> NoErr]
  ELSE [raised |-> FALSE, chatId |-> Str(ToStr(out.val)), err |-> NoErr]

\* finishOpenlinesChatIfAny from the settled resolve call to its next await
\* or its end (lines 217-228).
afterResolve(s, level) ==
  LET r == chatIdOf(LastCall(s).out)
  IN IF r.raised
       THEN handlerCatch([s EXCEPT !.wf = WfThrow(r.err)], level, r.err)
     ELSE IF ~Truthy(r.chatId)
       THEN handlerReport([s EXCEPT !.wf = WfReturn(FALSE, Null, NoChatReason)])
     ELSE LET c == bxStart(s.company, MethodFinish, r.chatId.s)
              s1 == [s EXCEPT !.chatId = r.chatId, !.calls = Append(s.calls, c), !.pc = "bx"]
          IN IF c.phase = "settled" THEN afterClose(s1, level) ELSE s1

\* bx settled with `out`: its finally clears the timer, and the caller goes on.
afterBx(s, level, out) ==
  LET c == LastCall(s)
      s1 == SetLast(s, [c EXCEPT !.phase = "settled", !.out = out,
                                 !.timer = IF c.timer = "armed" THEN "cleared" ELSE c.timer])
  IN IF c.method = MethodGetLastId THEN afterResolve(s1, level) ELSE afterClose(s1, level)

\* lookupVerdict letting a missing tenant through.
lookupVerdictMissGo(rec) ==
  IF ~rec.found THEN "go"
  ELSE IF ~rec.enabled THEN "companyDisabled"
  ELSE IF ~Truthy(rec.url) THEN "noWebhookUrl"
  ELSE "go"

\* lookupVerdict checking the webhook URL before the enabled flag.
lookupVerdictUrlFirst(rec) ==
  IF ~rec.found THEN "companyNotFound"
  ELSE IF ~Truthy(rec.url) THEN "noWebhookUrl"
  ELSE IF ~rec.enabled THEN "companyDisabled"
  ELSE "go"

\* The checks of the tenant record, in the handler's order (lines 298-328):
\* the stop it makes, or "go".
lookupVerdict(rec) ==
  IF ~rec.found THEN "companyNotFound"
  ELSE IF ~rec.enabled THEN "companyDisabled"
  ELSE IF ~Truthy(rec.url) THEN "noWebhookUrl"
  ELSE "go"

\* earlyCheck with the two checks in the other order.
earlyCheckMemberFirst(d, m) ==
  IF ~Truthy(m) THEN "noMemberId"
  ELSE IF ~Truthy(d) THEN "noDealId"
  ELSE "go"

\* The early checks of the identifiers, in the handler's order (lines 275-293).
earlyCheck(d, m) ==
  IF ~Truthy(d) THEN "noDealId"
  ELSE IF ~Truthy(m) THEN "noMemberId"
  ELSE "go"

\* stopStatus logging every stop as a warning.
stopStatusAllWarn(stop) == "WARN"

\* The status each stop is logged with (lines 278, 288, 301, 313, 323).
stopStatus(stop) == IF stop = "noWebhookUrl" THEN "ERROR" ELSE "WARN"

\* The handler from the settled lookup to its next await or its end (lines
\* 296-338, and getLastOpenlinesChatIdForDeal to its call of bx).
afterLookup(s, level, rec) ==
  LET s0 == [s EXCEPT !.company = rec, !.lookupRes = IF rec.found THEN "hit" ELSE "miss"]
      v == lookupVerdict(rec)
  IN IF v /= "go"
       THEN [s0 EXCEPT !.pc = "done", !.logs = log(s.logs, stopStatus(v), v)]
     ELSE LET s1 == [s0 EXCEPT !.logs = log(s.logs, "INFO", "tryClose"),
                                !.wfCalls = s.wfCalls + 1]
              id == ToNumber(s.dealId)
          IN IF id.nan
               THEN handlerReport([s1 EXCEPT !.wf = WfReturn(FALSE, Null, BadDealReason)])
             ELSE LET c == bxStart(rec, MethodGetLastId, ToStr(Num(id.n)))
                      s2 == [s1 EXCEPT !.calls = Append(s1.calls, c), !.pc = "bx"]
                  IN IF c.phase = "settled" THEN afterResolve(s2, level) ELSE s2

\* lookupFailed issuing the lookup again instead of giving up.
lookupFailedRetry(s, level) == [s EXCEPT !.pc = "lookup", !.lookups = s.lookups + 1]

\* The lookup rejected: the await at line 296 raises into the catch.
lookupFailed(s, level) == handlerCatch([s EXCEPT !.lookupRes = "failed"], level, DbError)

\* The task from its start to its first await or its end (lines 242-296).
\* Lines 247-269 run before the try of line 273: what raises there rejects
\* the task's promise, and only the process-level handler of line 11 sees it.
taskStart(s, level) ==
  LET member == s.req.body.member_id
      q == s.req.query.deal_id
  IN IF (Truthy(q) /\ StringThrows(q)) \/ (Truthy(member) /\ StringThrows(member))
       THEN [s EXCEPT !.pc = "rejected",
                      !.dealId = IF Truthy(q) /\ StringThrows(q) THEN Null
                                 ELSE extractDealId(s.req.query, s.req.body),
                      !.logs = log(s.logs, "FATAL", "unhandledRejection")]
     ELSE
       LET d == extractDealId(s.req.query, s.req.body)
           m == IF Truthy(member) THEN Str(ToStr(member)) ELSE Null
           l1 == log(s.logs, "INFO", "received")
           l2 == logDebug(logDebug(logDebug(l1, level, "headers", NoErr), level, "query", NoErr),
                          level, "body", NoErr)
           s1 == [s EXCEPT !.dealId = d, !.memberId = m, !.logs = l2]
           v == earlyCheck(d, m)
       IN IF v /= "go"
            THEN [s1 EXCEPT !.pc = "done", !.logs = log(l2, stopStatus(v), v)]
          ELSE [s1 EXCEPT !.pc = "lookup", !.lookups = s.lookups + 1]

\* The draft's handler after its acknowledgment (part_000 lines 90-147).
draftHandle(s) ==
  LET d == extractDealIdDraft(s.req.query, s.req.body)
  IN [s EXCEPT !.pc = "done", !.dealId = d, !.logs = log(s.logs, "OK", "draftReceived")]

\* ------------------------------------------------------------------ state

VARIABLES
  logLevel,  \* LOG_LEVEL
  pc,        \* per request: where its handler or task is
  handler,   \* per request: the program that serves it, "server" or "draft"
  req,       \* per request: the parsed request, [query, body]
  acked,     \* per request: res.sendStatus(200) has run
  dealId,    \* per request: the task's dealId
  memberId,  \* per request: the task's memberId
  company,   \* per request: the tenant record of the lookup
  chatId,    \* per request: the chat id the workflow resolved
  logs,      \* per request: the console entries written for it, in order
  lookups,   \* per request: the number of tenant lookups issued
  lookupRes, \* per request: "none", or how the lookup settled: "miss", "hit", "failed"
  wfCalls,   \* per request: the number of calls of finishOpenlinesChatIfAny
  calls,     \* per request: the invocations of bx, in order
  wf,        \* per request: what finishOpenlinesChatIfAny came to
  caught     \* per request: the error the task's catch received

vars == <<logLevel, pc, handler, req, acked, dealId, memberId, company, chatId, logs,
          lookups, lookupRes, wfCalls, calls, wf, caught>>

\* ----------------------------------------------------------------- inputs

Deal7 == <<"7">>

Deal42 == <<"4", "2">>

DocDeal42 == [isArray |-> TRUE, e2 |-> Str(DealPrefix \o Deal42)]

DocNone == [isArray |-> FALSE, e2 |-> Undef]

Mem1 == <<"m", "e", "m", "1">>

GoodUrl == <<"h", "t", "t", "p", "s", ":", "/", "/", "b", "/", "k", "/">>

GoodUrlNoSlash == <<"h", "t", "t", "p", ":", "/", "/", "b", "/", "k">>

FtpUrl == <<"f", "t", "p", ":", "/", "/", "b", "/">>

HttpJunk == <<"h", "t", "t", "p", "x">>

\* A scheme with no host after it.
HttpNoHost == <<"h", "t", "t", "p", ":", "/", "/">>

Queries == {[deal_id |-> v] : v \in {Undef, Str(Deal7), Str(<<"x", "7">>)}}

Bodies ==
  {[document_id |-> d, member_id |-> m] :
     d \in {DocNone, DocDeal42}, m \in {Undef, Str(Mem1), BadObj}}

Requests == {[query |-> q, body |-> b] : q \in Queries, b \in Bodies}

\* rows[0] || null of the lookup.
Tenants ==
  {[found |-> TRUE, enabled |-> e, url |-> u] :
     e \in BOOLEAN,
     u \in {Null, Str(<<>>), Str(GoodUrl), Str(GoodUrlNoSlash), Str(FtpUrl), Str(HttpJunk)}}
  \cup {NoCompany, [found |-> TRUE, enabled |-> TRUE, url |-> Str(HttpNoHost)]}

\* res.ok and res.statusText of a response.
Statuses ==
  {[ok |-> TRUE, text |-> <<"OK">>], [ok |-> FALSE, text |-> <<"Bad", "Request">>],
   [ok |-> FALSE, text |-> <<>>]}

\* json.result of a response.
Results ==
  {Undef, Null, Num(0), Num(0 - 1), Num(99), Str(<<"9", "9">>), Str(<<"0">>), Str(<<>>),
   Str(<<"a", "b", "c">>), Bool(TRUE), Obj, Arr(<<>>), BadObj}

\* The bodies res.json() can parse to.
Jsons ==
  {Json(Undef, Undef, v) : v \in Results}
  \cup {Json(Str(<<"ERROR_ENTITY">>), Str(Needle \o <<"by", "id">>), Undef),
        Json(Str(<<"ACCESS_DENIED">>), Undef, Undef),
        Json(Str(<<>>), Str(<<"ignored">>), Num(5)),
        Json(Undef, Str(<<>>), Undef), JsonNull}

\* ---------------------------------------------------------------- actions

Cur(r) ==
  [pc |-> pc[r], handler |-> handler[r], lookupRes |-> lookupRes[r], req |-> req[r], acked |-> acked[r], dealId |-> dealId[r],
   memberId |-> memberId[r], company |-> company[r], chatId |-> chatId[r],
   logs |-> logs[r], lookups |-> lookups[r], wfCalls |-> wfCalls[r],
   calls |-> calls[r], wf |-> wf[r], caught |-> caught[r]]

\* Commit keeping dealId in one place for all the requests (a module-level
\* variable instead of the task's own constant).
CommitSharedDeal(r, s) ==
  /\ pc' = [pc EXCEPT ![r] = s.pc]
  /\ handler' = [handler EXCEPT ![r] = s.handler]
  /\ lookupRes' = [lookupRes EXCEPT ![r] = s.lookupRes]
  /\ req' = [req EXCEPT ![r] = s.req]
  /\ acked' = [acked EXCEPT ![r] = s.acked]
  /\ dealId' = [x \in DOMAIN dealId |-> IF s.pc \in {"task", "draft"} THEN dealId[x] ELSE s.dealId]
  /\ memberId' = [memberId EXCEPT ![r] = s.memberId]
  /\ company' = [company EXCEPT ![r] = s.company]
  /\ chatId' = [chatId EXCEPT ![r] = s.chatId]
  /\ logs' = [logs EXCEPT ![r] = s.logs]
  /\ lookups' = [lookups EXCEPT ![r] = s.lookups]
  /\ wfCalls' = [wfCalls EXCEPT ![r] = s.wfCalls]
  /\ calls' = [calls EXCEPT ![r] = s.calls]
  /\ wf' = [wf EXCEPT ![r] = s.wf]
  /\ caught' = [caught EXCEPT ![r] = s.caught]
  /\ UNCHANGED logLevel

\* The step of request r: its own state becomes s, nothing else changes.
Commit(r, s) ==
  /\ pc' = [pc EXCEPT ![r] = s.pc]
  /\ handler' = [handler EXCEPT ![r] = s.handler]
  /\ lookupRes' = [lookupRes EXCEPT ![r] = s.lookupRes]
  /\ req' = [req EXCEPT ![r] = s.req]
  /\ acked' = [acked EXCEPT ![r] = s.acked]
  /\ dealId' = [dealId EXCEPT ![r] = s.dealId]
  /\ memberId' = [memberId EXCEPT ![r] = s.memberId]
  /\ company' = [company EXCEPT ![r] = s.company]
  /\ chatId' = [chatId EXCEPT ![r] = s.chatId]
  /\ logs' = [logs EXCEPT ![r] = s.logs]
  /\ lookups' = [lookups EXCEPT ![r] = s.lookups]
  /\ wfCalls' = [wfCalls EXCEPT ![r] = s.wfCalls]
  /\ calls' = [calls EXCEPT ![r] = s.calls]
  /\ wf' = [wf EXCEPT ![r] = s.wf]
  /\ caught' = [caught EXCEPT ![r] = s.caught]
  /\ UNCHANGED logLevel

NoRequest == [query |-> [deal_id |-> Undef], body |-> [document_id |-> DocNone, member_id |-> Undef]]

Fresh ==
  [pc |-> "idle", handler |-> "none", lookupRes |-> "none", req |-> NoRequest, acked |-> FALSE, dealId |-> Null, memberId |-> Null,
   company |-> NoCompany, chatId |-> Null, logs |-> <<>>, lookups |-> 0, wfCalls |-> 0,
   calls |-> <<>>, wf |-> WfNone, caught |-> NoErr]

\* ackServer starting the task without the acknowledgment.
ackServerLate(s, rq) == [s EXCEPT !.req = rq, !.handler = "server", !.pc = "task"]

\* app.post("/") of server.js, line 239: the acknowledgment, then the task
\* is started.
ackServer(s, rq) == [s EXCEPT !.req = rq, !.handler = "server", !.acked = TRUE, !.pc = "task"]

\* app.post("/") of the draft, line 88.
ackDraft(s, rq) == [s EXCEPT !.req = rq, !.handler = "draft", !.acked = TRUE, !.pc = "draft"]

\* The actions that take an input take it from the set they are given.
PostOf(r, requests) ==
  /\ pc[r] = "idle"
  /\ \E rq \in requests : Commit(r, ackServer(Cur(r), rq))

PostDraftOf(r, requests) ==
  /\ pc[r] = "idle"
  /\ \E rq \in requests : Commit(r, ackDraft(Cur(r), rq))

Post(r) == PostOf(r, Requests)

PostDraft(r) == PostDraftOf(r, Requests)

DraftHandle(r) ==
  /\ pc[r] = "draft"
  /\ Commit(r, draftHandle(Cur(r)))

TaskStart(r) ==
  /\ pc[r] = "task"
  /\ Commit(r, taskStart(Cur(r), logLevel))

LookupReturnOf(r, tenants) ==
  /\ pc[r] = "lookup"
  /\ \E rec \in tenants : Commit(r, afterLookup(Cur(r), logLevel, rec))

LookupReturn(r) == LookupReturnOf(r, Tenants)

LookupFail(r) ==
  /\ pc[r] = "lookup"
  /\ Commit(r, lookupFailed(Cur(r), logLevel))

InFlight(r, phase) ==
  /\ pc[r] = "bx"
  /\ calls[r][Len(calls[r])].phase = phase
  /\ calls[r][Len(calls[r])].timer = "armed"

\* The request with what settles its call in flight noted on the call.
Ending(r, ending) == SetLast(Cur(r), [LastCall(Cur(r)) EXCEPT !.ending = ending])

\* fetch resolves with the response's status line and headers.
FetchRespondOf(r, statuses) ==
  /\ InFlight(r, "fetch")
  /\ \E st \in statuses :
       Commit(r, SetLast(Cur(r), [LastCall(Cur(r)) EXCEPT !.phase = "body", !.resOk = st.ok,
                                                      !.statusText = st.text]))

FetchRespond(r) == FetchRespondOf(r, Statuses)

\* fetch rejects: the network failed.
FetchFail(r) ==
  /\ InFlight(r, "fetch")
  /\ Commit(r, afterBx(Ending(r, "network"), logLevel, Throw(FetchFailed)))

\* res.json() resolves.
BodyParsedOf(r, jsons) ==
  /\ InFlight(r, "body")
  /\ \E j \in jsons :
       LET c == LastCall(Cur(r))
           s1 == SetLast(Cur(r), [c EXCEPT !.json = j, !.ending = "parsed"])
       IN Commit(r, afterBx(s1, logLevel, bxResult(c.method, c.resOk, c.statusText, j)))

BodyParsed(r) == BodyParsedOf(r, Jsons)

\* res.json() rejects on a body that is not JSON, and the .catch makes it {}.
BodyUnparsable(r) ==
  /\ InFlight(r, "body")
  /\ LET c == LastCall(Cur(r))
     IN Commit(r, afterBx(Ending(r, "unparsable"), logLevel,
                          bxResult(c.method, c.resOk, c.statusText, EmptyJson)))

\* The timer of line 156 fires while the call is in flight.
TimerFires(r) ==
  /\ pc[r] = "bx"
  /\ LastCall(Cur(r)).timer = "armed"
  /\ LET c == LastCall(Cur(r))
         s1 == SetLast(Cur(r), [c EXCEPT !.timer = "fired", !.ending = "timeout"])
     IN Commit(r, afterBx(s1, logLevel, bxOnAbort(c)))

\* No request has arrived yet; ids are the requests that will.
InitOver(ids) ==
  /\ logLevel \in {"info", "debug"}
  /\ pc = [r \in ids |-> Fresh.pc]
  /\ handler = [r \in ids |-> Fresh.handler]
  /\ lookupRes = [r \in ids |-> Fresh.lookupRes]
  /\ req = [r \in ids |-> Fresh.req]
  /\ acked = [r \in ids |-> Fresh.acked]
  /\ dealId = [r \in ids |-> Fresh.dealId]
  /\ memberId = [r \in ids |-> Fresh.memberId]
  /\ company = [r \in ids |-> Fresh.company]
  /\ chatId = [r \in ids |-> Fresh.chatId]
  /\ logs = [r \in ids |-> Fresh.logs]
  /\ lookups = [r \in ids |-> Fresh.lookups]
  /\ wfCalls = [r \in ids |-> Fresh.wfCalls]
  /\ calls = [r \in ids |-> Fresh.calls]
  /\ wf = [r \in ids |-> Fresh.wf]
  /\ caught = [r \in ids |-> Fresh.caught]

Init == InitOver({1})

Next ==
  \/ \E r \in DOMAIN pc : Post(r)
  \/ \E r \in DOMAIN pc : PostDraft(r)
  \/ \E r \in DOMAIN pc : DraftHandle(r)
  \/ \E r \in DOMAIN pc : TaskStart(r)
  \/ \E r \in DOMAIN pc : LookupReturn(r)
  \/ \E r \in DOMAIN pc : LookupFail(r)
  \/ \E r \in DOMAIN pc : FetchRespond(r)
  \/ \E r \in DOMAIN pc : FetchFail(r)
  \/ \E r \in DOMAIN pc : BodyParsed(r)
  \/ \E r \in DOMAIN pc : BodyUnparsable(r)
  \/ \E r \in DOMAIN pc : TimerFires(r)

Spec == Init /\ [][Next]_vars

\* The task of an acknowledged request starts; the lookup settles; a call in
\* flight completes or its timer fires.
Progress(r) ==
  /\ WF_vars(TaskStart(r))
  /\ WF_vars(LookupReturn(r) \/ LookupFail(r))
  /\ WF_vars(FetchRespond(r) \/ FetchFail(r) \/ BodyParsed(r) \/ BodyUnparsable(r) \/ TimerFires(r))

SpecLive == Init /\ [][Next]_vars /\ Progress(1)

\* ------------------------------------------------- concurrent requests

\* The number of requests in process at the same time.
NReq == 2

ConcRequests ==
  {[query |-> [deal_id |-> Str(Deal7)], body |-> [document_id |-> DocNone, member_id |-> Str(Mem1)]],
   [query |-> [deal_id |-> Undef], body |-> [document_id |-> DocDeal42, member_id |-> Str(Mem1)]]}

ConcTenants ==
  {NoCompany,
   [found |-> TRUE, enabled |-> TRUE, url |-> Str(GoodUrl)],
   [found |-> TRUE, enabled |-> TRUE, url |-> Str(GoodUrlNoSlash)]}

ConcStatuses == {[ok |-> TRUE, text |-> <<"OK">>]}

ConcJsons == {Json(Undef, Undef, Num(99)), Json(Undef, Undef, Str(<<"5">>))}

InitConc == InitOver(1..NReq) /\ logLevel = "info"

PostConc(r) == PostOf(r, ConcRequests)

LookupReturnConc(r) == LookupReturnOf(r, ConcTenants)

FetchRespondConc(r) == FetchRespondOf(r, ConcStatuses)

BodyParsedConc(r) == BodyParsedOf(r, ConcJsons)

NextConc ==
  \/ \E r \in DOMAIN pc : PostConc(r)
  \/ \E r \in DOMAIN pc : TaskStart(r)
  \/ \E r \in DOMAIN pc : LookupReturnConc(r)
  \/ \E r \in DOMAIN pc : LookupFail(r)
  \/ \E r \in DOMAIN pc : FetchRespondConc(r)
  \/ \E r \in DOMAIN pc : BodyParsedConc(r)
  \/ \E r \in DOMAIN pc : TimerFires(r)

SpecConc == InitConc /\ [][NextConc]_vars

\* ----------------------------------------------------------------- claims

R == DOMAIN pc

LastLog(r) == logs[r][Len(logs[r])]

HasLog(r, status, msg) ==
  \E i \in 1..Len(logs[r]) : logs[r][i].status = status /\ logs[r][i].msg = msg

\* No error-level entry and no unhandled-rejection entry was written for r.
NoErrorLogged(r) ==
  \A i \in 1..Len(logs[r]) : logs[r][i].status \notin {"ERROR", "FATAL"}

\* C1: a request that is past its arrival in any way (its handler has moved
\* on, a lookup was issued, bx was invoked, an entry was logged) has been
\* acknowledged, whatever its payload and whatever came of it downstream.
C1_AckBeforeWork ==
  \A r \in R :
    (pc[r] /= "idle" \/ lookups[r] > 0 \/ calls[r] /= <<>> \/ logs[r] /= <<>>) => acked[r]

C1_Witness ==
  \E r \in R :
    /\ handler[r] = "server" /\ acked[r] /\ lookups[r] = 1
    /\ Len(calls[r]) = 2 /\ pc[r] = "done" /\ caught[r] /= NoErr

\* C2: after a lookup that found no tenant, finishOpenlinesChatIfAny was not
\* called, bx was not invoked, and the request is over.
C2_MissStops ==
  \A r \in R :
    lookupRes[r] = "miss" => wfCalls[r] = 0 /\ calls[r] = <<>> /\ pc[r] = "done"

C2_Witness ==
  \E r \in R : lookupRes[r] = "miss" /\ LastLog(r) = Entry("WARN", "companyNotFound", Null)

\* C3: a tenant found with enabled=false ends the request with no call of bx,
\* a warning as its last entry, and no error raised or logged, whatever the
\* tenant's webhook URL is.
C3_DisabledStops ==
  \A r \in R :
    (lookupRes[r] = "hit" /\ ~company[r].enabled) =>
      /\ calls[r] = <<>> /\ wfCalls[r] = 0 /\ pc[r] = "done"
      /\ LastLog(r) = Entry("WARN", "companyDisabled", Null)
      /\ caught[r] = NoErr /\ NoErrorLogged(r)

C3_Witness ==
  \E r \in R :
    /\ lookupRes[r] = "hit" /\ ~company[r].enabled /\ company[r].url = Str(GoodUrl)
    /\ HasLog(r, "WARN", "companyDisabled")

\* C4: an enabled tenant without a webhook URL ends the request with no call
\* of bx and an error-level entry, while the stops for missing identifiers, a
\* missing tenant and a disabled tenant are logged as warnings.
C4_NoUrlIsError ==
  \A r \in R :
    /\ (lookupRes[r] = "hit" /\ company[r].enabled /\ ~Truthy(company[r].url)) =>
         /\ calls[r] = <<>> /\ wfCalls[r] = 0 /\ pc[r] = "done"
         /\ LastLog(r) = Entry("ERROR", "noWebhookUrl", Null)
    /\ \A i \in 1..Len(logs[r]) :
         logs[r][i].msg \in {"noDealId", "noMemberId", "companyNotFound", "companyDisabled"}
           => logs[r][i].status = "WARN"

C4_Witness ==
  \E r \in R :
    lookupRes[r] = "hit" /\ company[r].enabled /\ company[r].url = Str(<<>>) /\ pc[r] = "done"

\* C5: a request of server.js whose task has started and has no deal id or no
\* member id is over, with no lookup and no call of bx; its last entry is the
\* warning for the deal id when that is missing, else the one for the member id.
C5_MissingIdsStop ==
  \A r \in R :
    (handler[r] = "server" /\ pc[r] \notin {"idle", "task"}
       /\ (~Truthy(dealId[r]) \/ ~Truthy(memberId[r]))) =>
      /\ lookups[r] = 0 /\ calls[r] = <<>> /\ wfCalls[r] = 0
      /\ pc[r] \in {"done", "rejected"}
      /\ logs[r] /= <<>>
      /\ pc[r] = "done" =>
           LastLog(r) = Entry("WARN", IF ~Truthy(dealId[r]) THEN "noDealId" ELSE "noMemberId", Null)

C5_Witness ==
  \E r \in R :
    /\ handler[r] = "server" /\ pc[r] = "done"
    /\ ~Truthy(dealId[r]) /\ ~Truthy(memberId[r])

\* C6: when the resolve call of bx raised, the workflow returned found=false
\* without a close call and without an error reaching the task's catch if the
\* message contains "Could not find CRM entity"; otherwise the workflow raised
\* that same error, which reached the catch, and no close call was made.
C6_NotFoundIsNoChat ==
  \A r \in R :
    (calls[r] /= <<>> /\ calls[r][1].phase = "settled" /\ calls[r][1].out.kind = "throw") =>
      /\ Len(calls[r]) = 1
      /\ IF Includes(calls[r][1].out.err.message, Needle)
           THEN wf[r].state = "returned" /\ ~wf[r].found /\ caught[r] = NoErr
         ELSE wf[r].state = "threw" /\ wf[r].err = calls[r][1].out.err
              /\ caught[r] = calls[r][1].out.err

C6_Witness ==
  \E r \in R :
    /\ calls[r] /= <<>> /\ calls[r][1].out.kind = "throw"
    /\ Includes(calls[r][1].out.err.message, Needle)
    /\ wf[r].state = "returned" /\ ~wf[r].found

\* The resolve call of r has returned a value (bx did not raise).
ResolveReturned(r) ==
  /\ calls[r] /= <<>>
  /\ calls[r][1].method = MethodGetLastId
  /\ calls[r][1].phase = "settled"
  /\ calls[r][1].out.kind = "return"

ResolveValue(r) == calls[r][1].out.val

\* v is a positive numeric id: a positive number, or its decimal text.
PositiveId(v) ==
  \/ v.t = "num" /\ v.n > 0
  \/ v.t = "str" /\ AllDigits(v.s) /\ DigitsToNat(v.s) > 0

\* C7, as stated: once the resolve call has returned a positive numeric id
\* and the request is over, there is exactly one close call, made with that
\* id, and the workflow has reported found=true, finished=true and that id.
C7_Original ==
  \A r \in R :
    (ResolveReturned(r) /\ PositiveId(ResolveValue(r)) /\ pc[r] = "done") =>
      /\ Len(calls[r]) = 2
      /\ calls[r][2].method = MethodFinish /\ calls[r][2].arg = ToStr(ResolveValue(r))
      /\ wf[r] = WfReturn(TRUE, Str(ToStr(ResolveValue(r))), "")

\* C7, amended: once the resolve call has returned a positive numeric id,
\* there is exactly one close call, made with that id as text; the workflow
\* reports nothing while that call is in flight, reports found=true,
\* finished=true and that id if the call returned, and raises the call's
\* error if the call raised.
C7_CloseOnceThenReport ==
  \A r \in R :
    (ResolveReturned(r) /\ PositiveId(ResolveValue(r))) =>
      /\ Len(calls[r]) = 2
      /\ calls[r][2].method = MethodFinish /\ calls[r][2].arg = ToStr(ResolveValue(r))
      /\ CASE calls[r][2].out.kind = "pending" -> wf[r] = WfNone /\ pc[r] = "bx"
           [] calls[r][2].out.kind = "return" ->
                wf[r] = WfReturn(TRUE, Str(ToStr(ResolveValue(r))), "") /\ pc[r] = "done"
           [] calls[r][2].out.kind = "throw" ->
                wf[r] = WfThrow(calls[r][2].out.err) /\ pc[r] = "done"

C7_Witness ==
  \E r \in R :
    /\ ResolveReturned(r) /\ ResolveValue(r) = Num(99)
    /\ Len(calls[r]) = 2 /\ calls[r][2].arg = <<"9", "9">> /\ calls[r][2].out.kind = "return"
    /\ wf[r].found /\ wf[r].finished /\ wf[r].chatId = Str(<<"9", "9">>)

\* C8: when the resolve call has returned a value that is not a positive
\* numeric id, no close call is made and the workflow reports found=false.
C8_OnlyPositiveCloses ==
  \A r \in R :
    (ResolveReturned(r) /\ ~PositiveId(ResolveValue(r))) =>
      /\ Len(calls[r]) = 1
      /\ wf[r].state = "returned" /\ ~wf[r].found

\* C9: a call of bx whose timer fired has raised an AbortError: it did not
\* return a value and raised nothing else.
C9_TimeoutRaises ==
  \A r \in R :
    \A i \in 1..Len(calls[r]) :
      calls[r][i].timer = "fired" =>
        /\ calls[r][i].phase = "settled"
        /\ calls[r][i].out.kind = "throw"
        /\ calls[r][i].out.err.name = "AbortError"

\* C10: no failure of an acknowledged request's task escapes the task: the
\* task's promise is never rejected, and a request that is over after a
\* failure has the error-level entry of the task's catch as its last
\* non-debug entry.
C10_AllCaught ==
  \A r \in R :
    /\ pc[r] /= "rejected"
    /\ ~HasLog(r, "FATAL", "unhandledRejection")
    /\ (lookupRes[r] = "failed" \/ wf[r].state = "threw") =>
         pc[r] = "done" /\ HasLog(r, "ERROR", "processingError")

\* The error of the integration failure r met, NoErr if it met none: the
\* lookup rejected, or a call of bx timed out or raised an error that
\* getLastOpenlinesChatIdForDeal does not take for "no chat".
IntegrationFailure(r) ==
  IF lookupRes[r] = "failed" THEN DbError
  ELSE IF wf[r].state = "threw" THEN wf[r].err
  ELSE IF \E i \in 1..Len(calls[r]) : calls[r][i].timer = "fired" THEN AbortError
  ELSE NoErr

\* C11: a request that met an integration failure is over and has an
\* error-level entry, and an entry printing that failure's message and
\* stack, whatever LOG_LEVEL is.
C11_FailureLoggedWithDetail ==
  \A r \in R :
    IntegrationFailure(r) /= NoErr =>
      /\ pc[r] = "done"
      /\ \E i \in 1..Len(logs[r]) : logs[r][i].status = "ERROR"
      /\ \E i \in 1..Len(logs[r]) : logs[r][i].detail = IntegrationFailure(r)

\* The calls of bx that r has made of one method.
CallsOf(r, method) == {i \in 1..Len(calls[r]) : calls[r][i].method = method}

\* C12: a request issues the lookup, the resolve call and the close call at
\* most once each and in that order: no call of bx while the lookup is in
\* flight or unless it returned a tenant, the close call only after the
\* resolve call has returned, only the last call can be in flight, and
\* nothing follows a lookup or a call that failed.
C12_Sequential ==
  \A r \in R :
    /\ lookups[r] <= 1
    /\ Cardinality(CallsOf(r, MethodGetLastId)) <= 1
    /\ Cardinality(CallsOf(r, MethodFinish)) <= 1
    /\ Len(calls[r]) <= 2
    /\ pc[r] = "lookup" => calls[r] = <<>> /\ lookupRes[r] = "none"
    /\ lookupRes[r] = "failed" => calls[r] = <<>> /\ pc[r] = "done"
    /\ calls[r] /= <<>> =>
         lookups[r] = 1 /\ lookupRes[r] = "hit" /\ calls[r][1].method = MethodGetLastId
    /\ Len(calls[r]) = 2 =>
         /\ calls[r][2].method = MethodFinish
         /\ calls[r][1].phase = "settled" /\ calls[r][1].out.kind = "return"
    /\ \A i \in 1..Len(calls[r]) :
         /\ calls[r][i].phase /= "settled" => i = Len(calls[r]) /\ pc[r] = "bx"
         /\ calls[r][i].out.kind = "throw" => i = Len(calls[r]) /\ pc[r] = "done"

C12_Witness ==
  \E r \in R :
    /\ lookups[r] = 1 /\ Len(calls[r]) = 2
    /\ calls[r][1].net /\ calls[r][2].net
    /\ calls[r][2].phase = "settled" /\ calls[r][2].out.kind = "throw"

\* ---------------------------------------------- extraction of the deal id

\* req.query.deal_id as the query parser gives it: absent, a string, an array
\* (deal_id[]=7) or an object (deal_id[a]=1).
ExtractQueries ==
  {[deal_id |-> v] :
     v \in {Undef, Str(<<>>), Str(Deal7), Str(<<"0">>), Str(<<"0", "0", "7">>), Str(Deal42),
            Str(<<"x", "7">>), Str(<<"7", "x">>), Arr(Deal7), Obj}}

\* body.document_id: absent, the array Bitrix sends, arrays whose element 2 is
\* some other text or no text, and a non-array with a key "2".
ExtractDocs ==
  {DocNone, DocDeal42,
   [isArray |-> TRUE, e2 |-> Str(DealPrefix)],
   [isArray |-> TRUE, e2 |-> Str(<<"x">> \o DealPrefix \o Deal42 \o <<"y">>)],
   [isArray |-> TRUE, e2 |-> Str(DealPrefix \o Deal7 \o DealPrefix \o Deal42)],
   [isArray |-> TRUE, e2 |-> Str(<<"L", "E", "A", "D", "_", "5">>)],
   [isArray |-> TRUE, e2 |-> Str(<<"d", "e", "a", "l", "_", "5">>)],
   [isArray |-> TRUE, e2 |-> Num(42)],
   [isArray |-> TRUE, e2 |-> Undef],
   [isArray |-> FALSE, e2 |-> Str(DealPrefix \o Deal42)]}

ExtractRequests ==
  {[query |-> q, body |-> [document_id |-> d, member_id |-> Str(Mem1)]] :
     q \in ExtractQueries, d \in ExtractDocs}

PostExtract(r) == PostOf(r, ExtractRequests)

PostDraftExtract(r) == PostDraftOf(r, ExtractRequests)

\* Requests over the extraction inputs, each taken as far as its deal id.
NextExtract ==
  \/ \E r \in DOMAIN pc : PostExtract(r)
  \/ \E r \in DOMAIN pc : PostDraftExtract(r)
  \/ \E r \in DOMAIN pc : TaskStart(r)
  \/ \E r \in DOMAIN pc : DraftHandle(r)

SpecExtract == Init /\ [][NextExtract]_vars

\* The handler of r has called extractDealId.
Extracted(r) == pc[r] \notin {"idle", "task", "draft"}

\* C15: when the query parameter deal_id is a string of digits only, the
\* deal id extracted for the request is that very string, whatever
\* body.document_id holds; and the draft's extractDealId gives what the
\* server's gives on every request.
C15_QueryDigitsWin ==
  \A r \in R :
    /\ pc[r] /= "idle" =>
         extractDealId(req[r].query, req[r].body) = extractDealIdDraft(req[r].query, req[r].body)
    /\ (Extracted(r) /\ req[r].query.deal_id.t = "str" /\ AllDigits(req[r].query.deal_id.s))
         => dealId[r] = req[r].query.deal_id

\* A digits-only query parameter has won over a document id of another deal.
C15_Witness ==
  \E r \in R :
    /\ Extracted(r)
    /\ req[r].query.deal_id = Str(<<"0", "0", "7">>)
    /\ req[r].body.document_id = DocDeal42
    /\ dealId[r] = Str(<<"0", "0", "7">>)

\* The query parameter deal_id is there and its text is digits only.
ValidQueryDealId(query) == query.deal_id.t \in {"str", "arr"} /\ AllDigits(query.deal_id.s)

\* body.document_id is an array whose element 2 is a text in which DEAL_ and
\* a digit occur (a match of the unanchored pattern, as `matches` is read).
MatchingDocumentId(body) ==
  /\ body.document_id.isArray
  /\ body.document_id.e2.t = "str"
  /\ \E i \in 1..Len(body.document_id.e2.s) :
       /\ i + 5 <= Len(body.document_id.e2.s)
       /\ SubSeq(body.document_id.e2.s, i, i + 5) \in
            {DealPrefix \o <<d>> : d \in {"0", "1", "2", "3", "4", "5", "6", "7", "8", "9"}}

\* C16: a request with neither a digits-only query deal_id nor an array
\* document_id whose element 2 matches DEAL_<digits> gets "not found" (null)
\* from extractDealId, in the server and in the draft; and whatever
\* extractDealId returns other than null is a non-empty string of digits.
C16_NotFoundOrDigits ==
  \A r \in R :
    Extracted(r) =>
      /\ (~ValidQueryDealId(req[r].query) /\ ~MatchingDocumentId(req[r].body)) => dealId[r] = Null
      /\ dealId[r] /= Null =>
           /\ dealId[r].t = "str"
           /\ dealId[r].s /= <<>>
           /\ \A i \in 1..Len(dealId[r].s) :
                dealId[r].s[i] \in {"0", "1", "2", "3", "4", "5", "6", "7", "8", "9"}

\* A request whose query parameter has a letter in it and whose document_id
\* is not an array has no deal id, although the text DEAL_42 is in its body.
C16_Witness ==
  \E r \in R :
    /\ Extracted(r)
    /\ req[r].query.deal_id = Str(<<"7", "x">>)
    /\ req[r].body.document_id = [isArray |-> FALSE, e2 |-> Str(DealPrefix \o Deal42)]
    /\ dealId[r] = Null

\* The tenant record of r has an absolute HTTP(S) URL as its webhook base.
HasAbsoluteUrl(r) == company[r].url.t = "str" /\ IsAbsHttpUrl(company[r].url.s)

\* C17: for a request whose tenant's webhook base URL is not an absolute
\* HTTP(S) URL, no call of bx goes out on the network or arms its timer:
\* each raises; and once bx was called the request is over with the
\* processing error logged.
C17_NoCallWithoutAbsoluteUrl ==
  \A r \in R :
    (lookupRes[r] = "hit" /\ ~HasAbsoluteUrl(r)) =>
      /\ \A i \in 1..Len(calls[r]) :
           /\ ~calls[r][i].net
           /\ calls[r][i].timer = "none"
           /\ calls[r][i].out.kind = "throw"
      /\ calls[r] /= <<>> => (pc[r] = "done" /\ HasLog(r, "ERROR", "processingError"))

\* The success entry "chat closed" of r, with the chat id it names.
ChatClosedLogged(r) ==
  \E i \in 1..Len(logs[r]) :
    logs[r][i].status = "OK" /\ logs[r][i].msg = "chatClosed" /\ logs[r][i].chatId = chatId[r]

\* C18: "chat closed" is logged for a request only when its lookup returned
\* an enabled tenant with a webhook URL, its resolve call returned the chat
\* id, and its close call, made for that chat id, returned without its
\* timer having fired.
C18_ClosedOnlyAfterClose ==
  \A r \in R :
    HasLog(r, "OK", "chatClosed") =>
      /\ ChatClosedLogged(r)
      /\ lookupRes[r] = "hit" /\ company[r].found /\ company[r].enabled /\ Truthy(company[r].url)
      /\ ResolveReturned(r) /\ Truthy(ResolveValue(r))
      /\ chatId[r] = Str(ToStr(ResolveValue(r)))
      /\ Len(calls[r]) = 2
      /\ calls[r][2].method = MethodFinish /\ calls[r][2].arg = chatId[r].s
      /\ calls[r][2].out.kind = "return"
      /\ calls[r][2].timer /= "fired"

\* The entries a task writes when it is over: the two skips for a missing
\* identifier, the tenant skips, the missing URL, no chat, chat closed, and
\* the processing error of the catch.
TerminalMessages ==
  {"noDealId", "noMemberId", "companyNotFound", "companyDisabled", "noWebhookUrl",
   "noChat", "chatClosed", "processingError"}

TerminalEntries(r) == {i \in 1..Len(logs[r]) : logs[r][i].msg \in TerminalMessages}

\* C19: with the lookup settling and every call completing or timing out,
\* the task of every request the server has acknowledged comes to its end
\* with exactly one terminal entry logged, and from then on the request
\* makes no lookup and no call.
C19_TerminatesWithOneEntry ==
  /\ \A r \in {1} :
       (acked[r] /\ handler[r] = "server")
         ~> (pc[r] = "done" /\ Cardinality(TerminalEntries(r)) = 1)
  /\ [][\A r \in R :
          TerminalEntries(r) /= {} => (lookups'[r] = lookups[r] /\ calls'[r] = calls[r])]_vars

\* What reaches request r from outside: its payload, how its lookup settled
\* and with which record, and for each of its calls the response and what
\* settled the call.
InputsOf(r) ==
  <<handler[r], req[r], lookupRes[r], company[r],
    [i \in 1..Len(calls[r]) |->
       <<calls[r][i].ending, calls[r][i].resOk, calls[r][i].statusText, calls[r][i].json>>]>>

\* The arguments of r's calls are made of r's own tenant URL, deal id and
\* chat id.
OwnArguments(r) ==
  \A i \in 1..Len(calls[r]) :
    /\ calls[r][i].net =>
         calls[r][i].url = Append(EnsureSlash(company[r].url.s), calls[r][i].method)
    /\ calls[r][i].method = MethodGetLastId =>
         /\ calls[r][i].arg = NatToDigits(DigitsToNat(dealId[r].s))
         /\ extractDealId(req[r].query, req[r].body) = dealId[r]
    /\ calls[r][i].method = MethodFinish =>
         /\ calls[r][i].arg = chatId[r].s
         /\ chatId[r] = chatIdOf(calls[r][1].out).chatId

\* C13: under every interleaving of the requests in process, (1) the
\* arguments of a request's calls come from its own tenant, deal id and chat
\* id, (2) two requests that are over and got the same payload and the same
\* responses ended the same way, (3) a step changes no state of any request
\* but the one it belongs to, and (4) a request's deal id, once extracted,
\* does not change.
C13_Isolated ==
  /\ [](\A r \in R : OwnArguments(r))
  /\ [](\A r \in R, s \in R :
          (pc[r] \in {"done", "rejected"} /\ pc[s] = pc[r] /\ InputsOf(r) = InputsOf(s))
            => Cur(r) = Cur(s))
  /\ [][\A r \in R, s \in R : (r /= s /\ Cur(r)' /= Cur(r)) => Cur(s)' = Cur(s)]_vars
  /\ [][\A r \in R : pc[r] \notin {"idle", "task", "draft"} => dealId'[r] = dealId[r]]_vars

\* Two requests for different deals of tenants with different URLs are both
\* over, each after its close call.
C13_Witness ==
  \E r \in R, s \in R :
    /\ pc[r] = "done" /\ pc[s] = "done"
    /\ Len(calls[r]) = 2 /\ Len(calls[s]) = 2
    /\ dealId[r] /= dealId[s] /\ company[r] /= company[s] /\ chatId[r] /= chatId[s]

\* The calls of r that bx took as far as the check of the parsed body.
BodyChecked(r) ==
  {i \in 1..Len(calls[r]) : calls[r][i].ending \in {"parsed", "unparsable"}}

\* The body carries an error field: the body is an object and has the key.
HasErrorField(json) == ~json.isNull /\ json.error /= Undef

\* The first available of error description, error code, status text, fallback.
BestMessage(c) ==
  IF ~c.json.isNull /\ c.json.error_description \notin {Undef, Str(<<>>)}
    THEN ToStr(c.json.error_description)
  ELSE IF ~c.json.isNull /\ c.json.error \notin {Undef, Str(<<>>)} THEN ToStr(c.json.error)
  ELSE IF c.statusText /= <<>> THEN c.statusText
  ELSE <<"Unknown", "error">>

\* C14: a call whose body bx has checked fails exactly when the status is not
\* ok or the body carries an error field; the error it raises is the method
\* name followed by the best available message; otherwise the call returns
\* the body's result.
C14_FailsExactlyOnError ==
  \A r \in R : \A i \in BodyChecked(r) :
    LET c == calls[r][i]
    IN IF ~c.resOk \/ HasErrorField(c.json)
         THEN c.out = Throw(Err("Error", <<c.method, "->">> \o BestMessage(c)))
       ELSE c.out = Return(c.json.result)

====
